---- MODULE Spec2Model ----
(***************************************************************************)
(* Model of sync_status_indicators (src/main.py): the apply() run of the   *)
(* status-indicator agent.  Each process of Procs is one invocation of     *)
(* the script; the pid-file lock, the state file (checkpoint store), the   *)
(* Finder labels and the wall clock are shared.                            *)
(***************************************************************************)
EXTENDS Integers, Sequences, FiniteSets, TLC

VARIABLES
    clock,        \* wall clock read by datetime.now()
    holders,      \* processes inside `with PidFile(...)`
    file,         \* state.json: the checkpoint store
    marker,       \* Finder label index of each path (0: none)
    pc,           \* position of each invocation of apply()
    sync_state,   \* local of apply(): the fetched (then filtered) records
    fetch_ts,     \* local of apply(): sync_state_fetch_timestamp
    last_synced,  \* local of apply(): result of load_last_synced()
    futures,      \* local of apply(): state of each submitted process_item
    exc,          \* the exception propagating out of apply(), or "none"
    began,        \* history: clock when this run's fetch was issued
    fetched,      \* history: the records fetch_sync_state() returned
    seen,         \* history: the state file as load_last_synced() found it
    applied,      \* history: indices whose apply_sync_status_indicator was called
    storeOps,     \* history: accesses of this run to the state file
    saved,        \* history: timestamps this run passed to update_last_synced
    fetch_error,  \* history: the exception raised inside fetch_sync_state()
    labelled      \* history: the labels this run set, in order of completion,
                  \*          each with the label it replaced

vars == <<clock, holders, file, marker, pc, sync_state, fetch_ts, last_synced,
          futures, exc, began, fetched, seen, applied, storeOps, saved,
          fetch_error, labelled>>

----------------------------------------------------------------------------
(* Bounds *)
MaxTime == 3

Procs == {1, 2}
Paths == {"a", "b"}
Missing == "<missing>"

(* Values of the "status" field the backend is taken to send. *)
InputStatuses == {"synced", "bogus"}

----------------------------------------------------------------------------
(* Python values: None, datetime objects, ISO-8601 strings, other strings. *)
NoneVal == [type |-> "none", val |-> 0]
Datetime(t) == [type |-> "datetime", val |-> t]
IsoStr(t) == [type |-> "str", val |-> t]
BadStr == [type |-> "badstr", val |-> 0]

(* datetime.isoformat() *)
isoformat(dt) == IsoStr(dt.val)

(* datetime.fromisoformat(x): a str is parsed, any other object is a        *)
(* TypeError, a str that is no ISO-8601 timestamp a ValueError.             *)
fromisoformat(x) ==
    IF x.type = "str" THEN [exc |-> "none", ret |-> Datetime(x.val)]
    ELSE IF x.type = "badstr" THEN [exc |-> "ValueError", ret |-> NoneVal]
    ELSE [exc |-> "TypeError", ret |-> NoneVal]

(* timedelta(seconds=2) *)
buffer == 2

(* class SyncStatus *)
SyncStatus == {"queued", "error", "synced", "ignored"}

color_code(status) ==
    CASE status = "queued" -> 1
      [] status = "error" -> 2
      [] status = "synced" -> 6
      [] status = "ignored" -> 7

----------------------------------------------------------------------------
(* The state file.  began is a history field: the fetch instant of the run  *)
(* that wrote the checkpoint.                                               *)
AbsentFile == [kind |-> "absent", last_synced |-> NoneVal, began |-> 0]
CorruptFiles ==
    { [kind |-> "unreadable", last_synced |-> NoneVal, began |-> 0],
      [kind |-> "notjson", last_synced |-> NoneVal, began |-> 0],
      [kind |-> "json", last_synced |-> NoneVal, began |-> 0],
      [kind |-> "json", last_synced |-> BadStr, began |-> 0] }
Unread == [kind |-> "unread", last_synced |-> NoneVal, began |-> 0]

(* Records the backend can report at time c: well-formed ones about path   *)
(* x, and ones that lack the path, the status or the timestamp.             *)
WellFormed(x, c) == [path : {x}, status : InputStatuses, timestamp : 0..c]
Malformed(c) ==
    { [path |-> Missing, status |-> "synced", timestamp |-> c],
      [path |-> "a", status |-> Missing, timestamp |-> c],
      [path |-> "a", status |-> "synced", timestamp |-> -1] }

(* A fetched batch holds at most one record per path: one about "a" (or a   *)
(* malformed one), then possibly one about "b".                             *)
Batches(c) ==
    LET first == WellFormed("a", c) \cup Malformed(c)
        second == WellFormed("b", c)
    IN  { <<r>> : r \in first } \cup { <<r[1], r[2]>> : r \in first \X second }

IsValid(item) == item.path # Missing /\ item.status \in SyncStatus

----------------------------------------------------------------------------
Init ==
    /\ clock = 0
    /\ holders = {}
    /\ file = AbsentFile
    /\ marker = [x \in Paths |-> 0]
    /\ pc = [p \in Procs |-> "idle"]
    /\ sync_state = [p \in Procs |-> <<>>]
    /\ fetch_ts = [p \in Procs |-> NoneVal]
    /\ last_synced = [p \in Procs |-> NoneVal]
    /\ futures = [p \in Procs |-> <<>>]
    /\ exc = [p \in Procs |-> "none"]
    /\ began = [p \in Procs |-> -1]
    /\ fetched = [p \in Procs |-> <<>>]
    /\ seen = [p \in Procs |-> Unread]
    /\ applied = [p \in Procs |-> {}]
    /\ storeOps = [p \in Procs |-> {}]
    /\ saved = [p \in Procs |-> <<>>]
    /\ fetch_error = [p \in Procs |-> "none"]
    /\ labelled = [p \in Procs |-> <<>>]

NotRunning == {"idle", "skipped"}

(* The locals and history of an invocation, gone when it ends. *)
ClearLocals(p) ==
    /\ sync_state' = [sync_state EXCEPT ![p] = <<>>]
    /\ fetch_ts' = [fetch_ts EXCEPT ![p] = NoneVal]
    /\ last_synced' = [last_synced EXCEPT ![p] = NoneVal]
    /\ futures' = [futures EXCEPT ![p] = <<>>]
    /\ exc' = [exc EXCEPT ![p] = "none"]
    /\ began' = [began EXCEPT ![p] = -1]
    /\ fetched' = [fetched EXCEPT ![p] = <<>>]
    /\ seen' = [seen EXCEPT ![p] = Unread]
    /\ applied' = [applied EXCEPT ![p] = {}]
    /\ storeOps' = [storeOps EXCEPT ![p] = {}]
    /\ saved' = [saved EXCEPT ![p] = <<>>]
    /\ fetch_error' = [fetch_error EXCEPT ![p] = "none"]
    /\ labelled' = [labelled EXCEPT ![p] = <<>>]

UnchangedLocals ==
    UNCHANGED <<sync_state, fetch_ts, last_synced, futures, exc, began, fetched,
                seen, applied, storeOps, saved, fetch_error, labelled>>

----------------------------------------------------------------------------
(* PidFile.__enter__: the lock is taken only when nobody holds it. *)
LockIgnored(h) == TRUE
LockFree(h) == h = {}

(* PidFile.__exit__, or the end of the process that holds the lock. *)
StillHeld(h, p) == h
Released(h, p) == h \ {p}

(* fetch_sync_state(): the exceptions the request can raise, and the ones   *)
(* its except clauses catch.                                                *)
FetchErrors == {"RequestError", "HTTPStatusError"}
CatchesRequestErrorOnly(e) == e = "RequestError"
FetchCaught(e) == e \in {"RequestError", "HTTPStatusError"}

(* `if not sync_state` *)
NeverEmptyFetch(s) == FALSE
IsEmptyFetch(s) == Len(s) = 0

(* `if last_synced` : None is falsy, a datetime is truthy *)
Truthy(x) == x.type # "none"

(* Every submitted future has finished, by returning or by raising. *)
NoJoin(fs) == TRUE
AllCompleted(fs) == \A i \in 1..Len(fs) : fs[i] # "pending"

(* One executor.submit(process_item, item) per item of sync_state. *)
DropsLast(s) == [k \in 1..(Len(s) - 1) |-> "pending"]
submit_all(s) == [k \in 1..Len(s) |-> "pending"]

(* The Finder labels after `set label index of <path> to <color code>`. *)
TogglesLabel(m, path, status) ==
    [m EXCEPT ![path] = IF @ = color_code(status) THEN 0 ELSE color_code(status)]
ClearsOtherLabels(m, path, status) ==
    [x \in Paths |-> IF x = path THEN color_code(status) ELSE 0]
apply_sync_status_indicator(m, path, status) ==
    [m EXCEPT ![path] = color_code(status)]

(* load_last_synced() on state file f: the exception that escapes it (or    *)
(* "none"), the value returned, and whether state_path.unlink() is reached. *)
LoadOutcome(f) ==
    CASE f.kind = "absent" ->       \* FileNotFoundError, caught
            [exc |-> "none", ret |-> NoneVal, unlink |-> TRUE]
      [] f.kind = "unreadable" ->   \* PermissionError, not caught
            [exc |-> "PermissionError", ret |-> NoneVal, unlink |-> FALSE]
      [] f.kind = "notjson" ->      \* JSONDecodeError is a ValueError, caught
            [exc |-> "none", ret |-> NoneVal, unlink |-> TRUE]
      [] f.kind = "json" ->
            LET r == fromisoformat(f.last_synced) IN
            IF r.exc = "none" THEN [exc |-> "none", ret |-> r.ret, unlink |-> FALSE]
            ELSE IF r.exc = "ValueError"
                 THEN [exc |-> "none", ret |-> NoneVal, unlink |-> TRUE]
                 ELSE [exc |-> r.exc, ret |-> NoneVal, unlink |-> FALSE]

(* The list comprehension of apply(): records not older than the            *)
(* checkpoint minus the buffer.                                             *)
FilterByCheckpoint(s, last_synced_dt) ==
    SelectSeq(s, LAMBDA i : fromisoformat(IsoStr(i.timestamp)).ret.val
                              >= last_synced_dt.val - buffer)

----------------------------------------------------------------------------
(* `with PidFile(...)`: enter the run, or PidFileError -> pass. *)
Acquire(p) ==
    /\ pc[p] \in NotRunning
    /\ IF LockFree(holders)
       THEN /\ holders' = holders \cup {p}
            /\ pc' = [pc EXCEPT ![p] = "fetch"]
       ELSE /\ pc' = [pc EXCEPT ![p] = "skipped"]
            /\ UNCHANGED holders
    /\ UNCHANGED <<clock, file, marker>>
    /\ UnchangedLocals

(* sync_state = fetch_sync_state() *)
fetch_sync_state(p) ==
    /\ pc[p] = "fetch"
    /\ \/ \E b \in Batches(clock) \cup {<<>>} :      \* return response.json()
              /\ sync_state' = [sync_state EXCEPT ![p] = b]
              /\ pc' = [pc EXCEPT ![p] = "now"]
              /\ UNCHANGED <<fetch_error, exc>>
       \/ \E e \in FetchErrors :
              /\ fetch_error' = [fetch_error EXCEPT ![p] = e]
              /\ IF FetchCaught(e)
                 THEN \* logged; return []
                      /\ sync_state' = [sync_state EXCEPT ![p] = <<>>]
                      /\ pc' = [pc EXCEPT ![p] = "now"]
                      /\ UNCHANGED exc
                 ELSE /\ exc' = [exc EXCEPT ![p] = e]
                      /\ pc' = [pc EXCEPT ![p] = "unwinding"]
                      /\ UNCHANGED sync_state
    /\ fetched' = [fetched EXCEPT ![p] = sync_state'[p]]
    /\ began' = [began EXCEPT ![p] = clock]
    /\ UNCHANGED <<clock, holders, file, marker, fetch_ts, last_synced, futures,
                   seen, applied, storeOps, saved, labelled>>

(* The checkpoint value taken from the first fetched record. *)
StampsFirstRecord(p) ==
    /\ pc[p] = "now"
    /\ fetch_ts' = [fetch_ts EXCEPT ![p] =
                       IF Len(sync_state[p]) > 0 /\ sync_state[p][1].timestamp >= 0
                       THEN Datetime(sync_state[p][1].timestamp)
                       ELSE Datetime(clock)]
    /\ pc' = [pc EXCEPT ![p] = IF IsEmptyFetch(sync_state[p]) THEN "exiting" ELSE "load"]
    /\ UNCHANGED <<clock, holders, file, marker, sync_state, last_synced, futures,
                   exc, began, fetched, seen, applied, storeOps, saved,
                   fetch_error, labelled>>

(* sync_state_fetch_timestamp = datetime.now(); if not sync_state: return *)
Timestamp(p) ==
    /\ pc[p] = "now"
    /\ fetch_ts' = [fetch_ts EXCEPT ![p] = Datetime(clock)]
    /\ pc' = [pc EXCEPT ![p] = IF IsEmptyFetch(sync_state[p]) THEN "exiting" ELSE "load"]
    /\ UNCHANGED <<clock, holders, file, marker, sync_state, last_synced, futures,
                   exc, began, fetched, seen, applied, storeOps, saved,
                   fetch_error, labelled>>

(* last_synced = load_last_synced() *)
load_last_synced(p) ==
    /\ pc[p] = "load"
    /\ LET o == LoadOutcome(file) IN
       /\ file' = IF o.unlink THEN AbsentFile ELSE file
       /\ storeOps' = [storeOps EXCEPT ![p] =
                          @ \cup {"read"} \cup (IF o.unlink THEN {"unlink"} ELSE {})]
       /\ last_synced' = [last_synced EXCEPT ![p] = o.ret]
       /\ exc' = [exc EXCEPT ![p] = o.exc]
       /\ pc' = [pc EXCEPT ![p] = IF o.exc = "none" THEN "filter" ELSE "unwinding"]
    /\ seen' = [seen EXCEPT ![p] = file]
    /\ UNCHANGED <<clock, holders, marker, sync_state, fetch_ts, futures, began,
                   fetched, applied, saved, fetch_error, labelled>>

(* if last_synced: last_synced_dt = datetime.fromisoformat(last_synced);    *)
(*                 sync_state = [i for i in sync_state if ...]              *)
Filter(p) ==
    /\ pc[p] = "filter"
    /\ IF Truthy(last_synced[p])
       THEN LET r == fromisoformat(last_synced[p]) IN
            IF r.exc # "none"
            THEN /\ pc' = [pc EXCEPT ![p] = "unwinding"]
                 /\ exc' = [exc EXCEPT ![p] = r.exc]
                 /\ UNCHANGED sync_state
            ELSE IF \E k \in 1..Len(sync_state[p]) : sync_state[p][k].timestamp = -1
                 THEN /\ pc' = [pc EXCEPT ![p] = "unwinding"]
                      /\ exc' = [exc EXCEPT ![p] = "KeyError"]
                      /\ UNCHANGED sync_state
                 ELSE /\ sync_state' = [sync_state EXCEPT ![p] =
                                           FilterByCheckpoint(@, r.ret)]
                      /\ pc' = [pc EXCEPT ![p] = "submit"]
                      /\ UNCHANGED exc
       ELSE /\ pc' = [pc EXCEPT ![p] = "submit"]
            /\ UNCHANGED <<sync_state, exc>>
    /\ UNCHANGED <<clock, holders, file, marker, fetch_ts, last_synced, futures,
                   began, fetched, seen, applied, storeOps, saved, fetch_error,
                   labelled>>

(* futures = [executor.submit(process_item, item) for item in sync_state] *)
Submit(p) ==
    /\ pc[p] = "submit"
    /\ futures' = [futures EXCEPT ![p] = submit_all(sync_state[p])]
    /\ pc' = [pc EXCEPT ![p] = "join"]
    /\ UNCHANGED <<clock, holders, file, marker, sync_state, fetch_ts, last_synced,
                   exc, began, fetched, seen, applied, storeOps, saved, fetch_error,
                   labelled>>

(* A worker thread runs process_item(sync_state[k]). *)
process_item(p, k) ==
    /\ pc[p] \in {"join", "shutdown"}
    /\ k \in 1..Len(futures[p])
    /\ futures[p][k] = "pending"
    /\ LET item == sync_state[p][k] IN
       IF ~IsValid(item)
       THEN \* KeyError or ValueError, logged
            /\ futures' = [futures EXCEPT ![p][k] = "done"]
            /\ UNCHANGED <<marker, applied, labelled>>
       ELSE \* apply_sync_status_indicator(path, status)
            /\ applied' = [applied EXCEPT ![p] = @ \cup {k}]
            /\ \/ /\ marker' = apply_sync_status_indicator(marker, item.path,
                                                              item.status)
                  /\ labelled' = [labelled EXCEPT ![p] =
                                     Append(@, [k |-> k, was |-> marker[item.path]])]
                  /\ futures' = [futures EXCEPT ![p][k] = "done"]
               \/ \* subprocess.CalledProcessError: logged, returns False
                  /\ futures' = [futures EXCEPT ![p][k] = "done"]
                  /\ UNCHANGED <<marker, labelled>>
               \/ \* osascript cannot be started: OSError, caught nowhere
                  /\ futures' = [futures EXCEPT ![p][k] = "raised"]
                  /\ UNCHANGED <<marker, labelled>>
    /\ UNCHANGED <<clock, holders, file, pc, sync_state, fetch_ts, last_synced,
                   exc, began, fetched, seen, storeOps, saved, fetch_error>>

(* for future in as_completed(futures): future.result()  -- all returned *)
Join(p) ==
    /\ pc[p] = "join"
    /\ AllCompleted(futures[p])
    /\ \A k \in 1..Len(futures[p]) : futures[p][k] # "raised"
    /\ pc' = [pc EXCEPT ![p] = "save"]
    /\ UNCHANGED <<clock, holders, file, marker>>
    /\ UnchangedLocals

(* future.result() re-raises the exception of a finished future *)
JoinRaise(p) ==
    /\ pc[p] = "join"
    /\ \E k \in 1..Len(futures[p]) : futures[p][k] = "raised"
    /\ pc' = [pc EXCEPT ![p] = "shutdown"]
    /\ exc' = [exc EXCEPT ![p] = "OSError"]
    /\ UNCHANGED <<clock, holders, file, marker, sync_state, fetch_ts, last_synced,
                   futures, began, fetched, seen, applied, storeOps, saved,
                   fetch_error, labelled>>

(* ThreadPoolExecutor.__exit__: shutdown(wait=True), then the exception     *)
(* goes on.                                                                 *)
Shutdown(p) ==
    /\ pc[p] = "shutdown"
    /\ AllCompleted(futures[p])
    /\ pc' = [pc EXCEPT ![p] = "unwinding"]
    /\ UNCHANGED <<clock, holders, file, marker>>
    /\ UnchangedLocals

(* update_last_synced(timestamp=sync_state_fetch_timestamp) *)
update_last_synced(p) ==
    /\ pc[p] = "save"
    /\ saved' = [saved EXCEPT ![p] = Append(@, fetch_ts[p].val)]
    /\ storeOps' = [storeOps EXCEPT ![p] = @ \cup {"write"}]
    /\ \/ file' = [kind |-> "json", last_synced |-> isoformat(fetch_ts[p]),
                   began |-> began[p]]
       \/ UNCHANGED file      \* IOError from open(): logged
       \/ file' = [kind |-> "notjson", last_synced |-> NoneVal, began |-> 0]
                              \* IOError after open() truncated the file
    /\ pc' = [pc EXCEPT ![p] = "exiting"]
    /\ UNCHANGED <<clock, holders, marker, sync_state, fetch_ts, last_synced,
                   futures, exc, began, fetched, seen, applied, fetch_error,
                   labelled>>

(* PidFile.__exit__: the lock is released; apply() returns (from           *)
(* "exiting") or the exception leaves it (from "unwinding") and the process *)
(* ends.                                                                    *)
Release(p) ==
    /\ pc[p] \in {"exiting", "unwinding"}
    /\ holders' = Released(holders, p)
    /\ pc' = [pc EXCEPT ![p] = "idle"]
    /\ ClearLocals(p)
    /\ UNCHANGED <<clock, file, marker>>

(* The process is killed from outside; its lock goes with it. *)
Kill(p) ==
    /\ pc[p] \notin NotRunning
    /\ holders' = Released(holders, p)
    /\ pc' = [pc EXCEPT ![p] = "idle"]
    /\ ClearLocals(p)
    /\ UNCHANGED <<clock, file, marker>>

(* Time passes. *)
Tick ==
    /\ clock < MaxTime
    /\ clock' = clock + 1
    /\ UNCHANGED <<holders, file, marker, pc>>
    /\ UnchangedLocals

(* The state file is damaged or removed from outside.  A run reads the file *)
(* once and writes it once, so damage during a run is the same as damage    *)
(* right before or right after it: it is taken to happen between runs.      *)
Tamper ==
    /\ holders = {}
    /\ \E f \in CorruptFiles \cup {AbsentFile} : f # file /\ file' = f
    /\ UNCHANGED <<clock, holders, marker, pc>>
    /\ UnchangedLocals

Next ==
    \/ \E p \in Procs :
          \/ Acquire(p)
          \/ fetch_sync_state(p)
          \/ Timestamp(p)
          \/ load_last_synced(p)
          \/ Filter(p)
          \/ Submit(p)
          \/ \E k \in 1..Cardinality(Paths) : process_item(p, k)
          \/ Join(p)
          \/ JoinRaise(p)
          \/ Shutdown(p)
          \/ update_last_synced(p)
          \/ Release(p)
          \/ Kill(p)
    \/ Tick
    \/ Tamper

Spec == Init /\ [][Next]_vars

----------------------------------------------------------------------------
(* Vocabulary of the properties. *)
Range(s) == { s[k] : k \in 1..Len(s) }

(* The body of apply() is over: it returns, or an exception leaves it. *)
RunEnded(p) == pc[p] \in {"exiting", "unwinding"}

(* Records handed to process_item, and those passed on to                   *)
(* apply_sync_status_indicator, in this run.                                *)
DispatchedRecords(p) == { sync_state[p][k] : k \in 1..Len(futures[p]) }
AppliedRecords(p) == { sync_state[p][k] : k \in applied[p] }

(* The state file held a well-formed checkpoint when it was loaded. *)
SawCheckpoint(p) == seen[p].kind = "json" /\ seen[p].last_synced.type = "str"

(* A state file holding a checkpoint that load_last_synced() can parse. *)
HoldsCheckpoint(f) == f.kind = "json" /\ f.last_synced.type = "str"

(* Indices whose label was set, and those whose application failed. *)
Labelled(p) == { labelled[p][i].k : i \in 1..Len(labelled[p]) }
FailedApplications(p) == applied[p] \ Labelled(p)

Unrecognized(item) == item.status # Missing /\ item.status \notin SyncStatus

----------------------------------------------------------------------------
(* C1 -- Checkpoint anchor: whenever a run saves a checkpoint, the value it *)
(* saves is the time at which its fetch was issued, not a later time.       *)
CheckpointAnchor ==
    \A p \in Procs : saved[p] # <<>> => saved[p][1] = began[p]

(* C2 -- Buffer inclusion: a run that loaded a checkpoint and fetched a     *)
(* non-empty batch (every record with a timestamp) ends having dispatched   *)
(* exactly the records with timestamp >= checkpoint - buffer, and having    *)
(* saved the checkpoint.                                                    *)
BufferInclusion ==
    \A p \in Procs :
        ( /\ RunEnded(p)
          /\ Truthy(last_synced[p])
          /\ fetched[p] # <<>>
          /\ \A r \in Range(fetched[p]) : r.timestamp >= 0 )
        => /\ DispatchedRecords(p) =
                { r \in Range(fetched[p]) : r.timestamp >= last_synced[p].val - buffer }
           /\ saved[p] # <<>>

(* C3 -- No checkpoint advance on empty fetch: after an empty fetch the run *)
(* goes straight to its end, with nothing dispatched and the state file     *)
(* neither read, written nor deleted; no step of such a run changes the     *)
(* state file or a marker.                                                  *)
NoAdvanceOnEmptyFetch ==
    /\ [](\A p \in Procs :
            (pc[p] \notin {"idle", "skipped", "fetch", "now"} /\ fetched[p] = <<>>)
            => /\ pc[p] = "exiting"
               /\ storeOps[p] = {}
               /\ seen[p] = Unread
               /\ futures[p] = <<>>
               /\ applied[p] = {}
               /\ saved[p] = <<>>)
    /\ [][\A p \in Procs :
            (pc[p] \in {"fetch", "now", "exiting"} /\ fetched[p] = <<>>
                /\ fetched'[p] = <<>>)
            => (file' = file /\ marker' = marker)]_vars

EmptyFetchWitness ==
    \E p \in Procs :
        /\ pc[p] = "exiting"
        /\ fetched[p] = <<>>
        /\ file.kind = "json"
        /\ file.last_synced.type = "str"

(* C4 -- First run: a run that found no state file and fetched a non-empty  *)
(* batch ends having passed every valid fetched record to                   *)
(* apply_sync_status_indicator, whatever its timestamp, and having saved    *)
(* the checkpoint.                                                          *)
FirstRunDispatchesAll ==
    \A p \in Procs :
        (RunEnded(p) /\ seen[p].kind = "absent" /\ fetched[p] # <<>>)
        => /\ \A r \in Range(fetched[p]) : IsValid(r) => r \in AppliedRecords(p)
           /\ saved[p] # <<>>

(* C5 -- Concurrent-run exclusion: at most one invocation is inside the     *)
(* lock; an invocation is past the lock only while it holds it; an          *)
(* invocation made while the lock is held ends as skipped, having fetched,  *)
(* dispatched and touched nothing, and no exception leaves it.              *)
ConcurrentRunExclusion ==
    /\ [](/\ Cardinality(holders) <= 1
          /\ \A p \in Procs :
                /\ pc[p] \notin {"idle", "skipped"} => p \in holders
                /\ pc[p] \in {"idle", "skipped"} =>
                      /\ p \notin holders
                      /\ began[p] = -1
                      /\ fetched[p] = <<>>
                      /\ futures[p] = <<>>
                      /\ applied[p] = {}
                      /\ storeOps[p] = {}
                      /\ saved[p] = <<>>
                      /\ exc[p] = "none")
    /\ [][\A p \in Procs :
            (pc[p] \in {"idle", "skipped"} /\ pc'[p] # pc[p] /\ holders # {})
            => /\ pc'[p] = "skipped"
               /\ UNCHANGED <<holders, file, marker, began, fetched, futures,
                              applied, storeOps, saved, exc>>]_vars

SkippedWitness ==
    \E p, q \in Procs :
        /\ pc[p] = "skipped"
        /\ q \in holders
        /\ pc[q] = "join"
        /\ Len(futures[q]) = 2

(* C6 -- Join before save: update_last_synced is called at most once per    *)
(* run and only when every record of the work set was submitted and every   *)
(* submitted process_item has finished; a run that has not got past the     *)
(* join, or that an exception is leaving, has saved nothing, and the step   *)
(* that ends such a run leaves the state file as it is.                     *)
JoinBeforeSave ==
    /\ [](\A p \in Procs :
            /\ Len(saved[p]) <= 1
            /\ saved[p] # <<>> =>
                  /\ Len(futures[p]) = Len(sync_state[p])
                  /\ \A k \in 1..Len(futures[p]) : futures[p][k] # "pending"
            /\ pc[p] \notin {"exiting"} =>
                  (saved[p] = <<>> /\ "write" \notin storeOps[p]))
    /\ [][\A p \in Procs :
            /\ (saved'[p] # saved[p] /\ saved'[p] # <<>>) =>
                  \A k \in 1..Len(futures[p]) : futures[p][k] # "pending"
            /\ (pc[p] \notin {"idle", "skipped", "save"} /\ pc'[p] # pc[p]) =>
                  file' = file \/ pc[p] = "load"]_vars

JoinedSaveWitness ==
    \E p \in Procs :
        /\ pc[p] = "exiting"
        /\ saved[p] # <<>>
        /\ Len(futures[p]) = 2
        /\ applied[p] = {1, 2}

(* C7 -- No skipped records across runs: a run that loaded the checkpoint   *)
(* of an earlier run ends having dispatched every fetched record whose      *)
(* timestamp lies after the earlier run issued its fetch and not after the  *)
(* checkpoint that run saved.                                               *)
NoSkippedRecords ==
    \A p \in Procs :
        (RunEnded(p) /\ SawCheckpoint(p))
        => \A r \in Range(fetched[p]) :
              (r.timestamp > seen[p].began /\ r.timestamp <= seen[p].last_synced.val)
              => r \in DispatchedRecords(p)

(* C8 -- No failure is fatal: no exception ever leaves apply(). *)
NoFailureFatal ==
    \A p \in Procs : exc[p] = "none" /\ pc[p] # "unwinding"

(* C9 -- Checkpoint corruption handling: a run that found the state file    *)
(* absent, unreadable, not JSON, without a usable last_synced or with an    *)
(* unparsable timestamp got None from load_last_synced, deleted the file    *)
(* when its content was malformed, and dispatched every fetched record.     *)
CorruptionHandling ==
    \A p \in Procs :
        (RunEnded(p) /\ seen[p] # Unread /\ ~SawCheckpoint(p))
        => /\ last_synced[p] = NoneVal
           /\ seen[p].kind \in {"notjson", "json"} => "unlink" \in storeOps[p]
           /\ DispatchedRecords(p) = Range(fetched[p])

(* C10 -- Validation isolation: a run whose batch holds one record with an  *)
(* unrecognized status and otherwise valid records (at least one) ends      *)
(* having called apply_sync_status_indicator once per valid record and      *)
(* never for the invalid one, without an exception, the checkpoint saved.   *)
(* Stated for the runs that loaded a checkpoint, the case of every run      *)
(* after the first.                                                         *)
ValidationIsolation ==
    \A p \in Procs :
        ( /\ RunEnded(p)
          /\ SawCheckpoint(p)
          /\ Cardinality({ k \in 1..Len(fetched[p]) : Unrecognized(fetched[p][k]) }) = 1
          /\ \E k \in 1..Len(fetched[p]) : IsValid(fetched[p][k])
          /\ \A k \in 1..Len(fetched[p]) :
                IsValid(fetched[p][k]) \/ Unrecognized(fetched[p][k]) )
        => /\ AppliedRecords(p) = { r \in Range(fetched[p]) : IsValid(r) }
           /\ Cardinality(applied[p]) =
                 Cardinality({ k \in 1..Len(fetched[p]) : IsValid(fetched[p][k]) })
           /\ exc[p] = "none"
           /\ saved[p] # <<>>

(* C11 -- Missing-field isolation: a run whose batch holds a record that    *)
(* lacks its path, status or timestamp ends without having applied that     *)
(* record, having dispatched every sibling that passes the checkpoint       *)
(* filter, without an exception and with the checkpoint saved.  Stated for  *)
(* the runs that loaded a checkpoint.                                       *)
LacksField(item) ==
    item.path = Missing \/ item.status = Missing \/ item.timestamp = -1

MissingFieldIsolation ==
    \A p \in Procs :
        ( /\ RunEnded(p)
          /\ SawCheckpoint(p)
          /\ \E r \in Range(fetched[p]) : LacksField(r) )
        => /\ \A r \in Range(fetched[p]) : LacksField(r) => r \notin AppliedRecords(p)
           /\ \A r \in Range(fetched[p]) :
                 (~LacksField(r) /\ r.timestamp >= seen[p].last_synced.val - buffer)
                 => r \in DispatchedRecords(p)
           /\ exc[p] = "none"
           /\ saved[p] # <<>>

(* C12 -- Status-application failure isolation: a run in which             *)
(* apply_sync_status_indicator failed for a record ends having dispatched   *)
(* every record of its work set, without an exception and with the          *)
(* checkpoint save reached.                                                 *)
ApplicationFailureIsolation ==
    \A p \in Procs :
        (RunEnded(p) /\ FailedApplications(p) # {})
        => /\ DispatchedRecords(p) = Range(sync_state[p])
           /\ \A k \in 1..Len(futures[p]) : futures[p][k] # "pending"
           /\ exc[p] = "none"
           /\ saved[p] # <<>>

(* C13 -- Fetch fail-open: when the request fails in transport or with an   *)
(* error status, no exception leaves fetch_sync_state, the result is empty, *)
(* and the run goes to its normal end with nothing dispatched and the state *)
(* file untouched; no step of such a run changes the state file or a        *)
(* marker, and the step that ends it frees the lock.                        *)
FetchFailOpen ==
    /\ [](\A p \in Procs :
            fetch_error[p] # "none"
            => /\ exc[p] = "none"
               /\ pc[p] \in {"now", "exiting"}
               /\ sync_state[p] = <<>>
               /\ futures[p] = <<>>
               /\ applied[p] = {}
               /\ storeOps[p] = {}
               /\ saved[p] = <<>>)
    /\ [][\A p \in Procs :
            /\ fetch_error'[p] # "none" => (file' = file /\ marker' = marker)
            /\ (fetch_error[p] # "none" /\ fetch_error'[p] = "none")
                  => (file' = file /\ marker' = marker /\ holders' = {})]_vars

FetchFailOpenWitness ==
    \E p \in Procs :
        /\ pc[p] = "exiting"
        /\ fetch_error[p] = "HTTPStatusError"
        /\ HoldsCheckpoint(file)

(* C14 -- Checkpoint write failure: the step of update_last_synced raises   *)
(* nothing and either stores the new checkpoint or leaves the state file    *)
(* exactly as it was.                                                       *)
WriteFailureKeepsCheckpoint ==
    [][\A p \in Procs :
          (pc[p] = "save" /\ pc'[p] = "exiting")
          => /\ exc'[p] = "none"
             /\ \/ file' = file
                \/ /\ HoldsCheckpoint(file')
                   /\ file'.last_synced.val = fetch_ts[p].val]_vars

(* C15 -- Lock release: the lock is held only by an invocation that is      *)
(* still running; the step that ends a run, whether apply() returns, an     *)
(* exception leaves it or the process is killed, leaves the lock free; and  *)
(* an invocation made while the lock is free acquires it.                   *)
LockRelease ==
    /\ [](\A p \in holders : pc[p] \notin NotRunning)
    /\ [][\A p \in Procs :
            /\ (pc[p] \notin NotRunning /\ pc'[p] \in NotRunning) => holders' = {}
            /\ (pc[p] \in NotRunning /\ pc'[p] # pc[p] /\ holders = {})
                  => (pc'[p] = "fetch" /\ holders' = {p})]_vars

LockReleaseWitness ==
    \E p \in Procs :
        /\ holders = {p}
        /\ pc[p] = "fetch"
        /\ HoldsCheckpoint(file)
        /\ marker["a"] # 0

(* C16 -- Idempotent application: setting the label of a path to the label  *)
(* it already has leaves every marker as it is, and applying a (path,       *)
(* status) a second time to any reachable marker state changes nothing.     *)
IdempotentApplication ==
    /\ [](\A x \in Paths : \A s \in SyncStatus :
            apply_sync_status_indicator(
                apply_sync_status_indicator(marker, x, s), x, s)
            = apply_sync_status_indicator(marker, x, s))
    /\ [][\A p \in Procs :
            (Len(labelled'[p]) = Len(labelled[p]) + 1
                /\ LET e == labelled'[p][Len(labelled'[p])]
                   IN e.was = color_code(sync_state[p][e.k].status))
            => marker' = marker]_vars

ReappliedWitness ==
    \E p \in Procs : \E i \in 1..Len(labelled[p]) :
        /\ labelled[p][i].was = color_code(sync_state[p][labelled[p][i].k].status)
        /\ marker[sync_state[p][labelled[p][i].k].path] = labelled[p][i].was

DistinctPaths(s) ==
    \A i, j \in 1..Len(s) : s[i].path = s[j].path => i = j

InterleavingIndependence ==
    /\ [](\A p \in Procs :
            (pc[p] \in {"save", "exiting"} /\ DistinctPaths(sync_state[p]))
            => \A k \in Labelled(p) :
                  marker[sync_state[p][k].path] = color_code(sync_state[p][k].status))
    /\ [][\A p \in Procs : \A k \in 1..Len(futures[p]) :
            (DistinctPaths(sync_state[p]) /\ futures[p][k] = "pending"
                /\ Len(futures'[p]) >= k /\ futures'[p][k] # "pending")
            => \A x \in Paths \ {sync_state[p][k].path} : marker'[x] = marker[x]]_vars

ReverseOrderWitness ==
    \E p \in Procs :
        /\ pc[p] = "exiting"
        /\ Len(labelled[p]) = 2
        /\ labelled[p][1].k = 2
        /\ labelled[p][1].was # color_code(sync_state[p][2].status)

(* C19 -- Exactly-once dispatch per run: from the dispatch step on there is *)
(* one future per record of the filtered work set; apply_sync_status_       *)
(* indicator was called for exactly the valid records whose future has      *)
(* finished; no label was set twice; a run at the save has every future     *)
(* finished; and a finished future never runs again.                        *)
ExactlyOnceDispatch ==
    /\ [](\A p \in Procs :
            /\ (pc[p] \in {"join", "shutdown", "save"} \/ saved[p] # <<>>
                   \/ exc[p] = "OSError")
                  => Len(futures[p]) = Len(sync_state[p])
            /\ applied[p] = { k \in 1..Len(futures[p]) :
                                futures[p][k] # "pending" /\ IsValid(sync_state[p][k]) }
            /\ Cardinality(Labelled(p)) = Len(labelled[p])
            /\ (pc[p] = "save" \/ saved[p] # <<>>)
                  => \A k \in 1..Len(futures[p]) : futures[p][k] = "done")
    /\ [][\A p \in Procs : \A k \in 1..Len(futures[p]) :
            (futures[p][k] # "pending" /\ pc'[p] \notin NotRunning)
            => /\ futures'[p][k] = futures[p][k]
               /\ (k \in applied'[p]) = (k \in applied[p])]_vars

DispatchedOnceWitness ==
    \E p \in Procs :
        /\ pc[p] = "save"
        /\ Len(sync_state[p]) = 2
        /\ applied[p] = {2}
        /\ Labelled(p) = {2}

====
